---- MODULE Spec2Model ----
(***************************************************************************)
(* SkiMeister: the acquisition pipeline (rate-limited, cached, retried     *)
(* fetching; extraction; batch seeding) as a state machine.                *)
(*                                                                         *)
(* The clock `now` counts seconds.  A cache file is a sequence of blocks,  *)
(* the units in which json.dump hands the document to the file; the        *)
(* value None, a returned text and a raised exception are tagged records.  *)
(***************************************************************************)
EXTENDS Integers, Sequences, FiniteSets, TLC

\* ------------------------------------------------------------ config.py
SCRAPER_RATE_LIMIT == 2
SCRAPER_MAX_RETRIES == 3
CACHE_EXPIRY_HOURS == 24
\* timedelta(hours=...) in seconds
SecondsPerHour == 3600

\* ------------------------------------------------------------ bounds
\* the wall clock when the process starts (time.time() is far from 0)
StartTime == 5
\* the number of one-second steps of the clock in a run
MaxTicks == 4
\* the number of long waits (one second short of the cache expiry) in a run
MaxLong == 1
\* the number of fetch_url calls of the sequential program
MaxCalls == 2
\* the number of fetch_url calls of each of the concurrent workers
ConcCalls == 1

Workers == {"w1", "w2"}
Fetchers == {"f1", "f2"}
Urls == {"u1"}
\* response.text of a 2xx response: the empty document and two others
Payloads == {<<>>, <<1>>, <<2>>}

Expiry == CACHE_EXPIRY_HOURS * SecondsPerHour
LongWait == Expiry - 1
TickSteps == {1, LongWait}

\* ------------------------------------------------------------ values
NoneV == [tag |-> "None", text |-> <<>>]
Text(p) == [tag |-> "str", text |-> p]
Raised(e) == [tag |-> e, text |-> <<>>]
IsRaised(v) == v.tag \notin {"None", "str"}
\* Python truthiness of None or a str
Truthy(v) == v.tag = "str" /\ v.text # <<>>

\* ------------------------------------------------------------ cache files
NoFile == [exists |-> FALSE, blocks |-> <<>>]
File(b) == [exists |-> TRUE, blocks |-> b]
Block(k, v) == [kind |-> k, val |-> v]

\* os.path.join(CACHE_DIR, md5(key).hexdigest() + ".json"): the key's file name
get_cache_path(key) == <<"cache", key>>
Paths == {get_cache_path(u) : u \in Urls}

\* json.dump({'timestamp': ts.isoformat(), 'data': data}, f): the document, in
\* the blocks the encoder writes: the timestamp, the data, the closing brace
json_dump(ts, data) ==
    <<Block("head", ts)>> \o [i \in 1..Len(data) |-> Block("data", data[i])]
        \o <<Block("tail", 0)>>

\* Whole files that are one JSON value of another shape, or no JSON at all
ShapeKinds == {"list", "obj_no_ts", "obj_num_ts", "obj_bad_ts", "obj_no_data"}
MalformedFiles ==
    {File(<<Block(k, StartTime)>>) : k \in ShapeKinds} \cup {File(<<Block("garbage", 0)>>)}

\* json.load(f): the parsed value, or shape "invalid" for JSONDecodeError
json_load(blocks) ==
    LET n == Len(blocks) IN
    IF n = 1 /\ blocks[1].kind \in ShapeKinds
    THEN [shape |-> blocks[1].kind, ts |-> blocks[1].val, data |-> <<>>]
    ELSE IF /\ n >= 2
            /\ blocks[1].kind = "head"
            /\ blocks[n].kind = "tail"
            /\ \A i \in 2..(n - 1) : blocks[i].kind = "data"
    THEN [shape |-> "entry", ts |-> blocks[1].val,
          data |-> [i \in 1..(n - 2) |-> blocks[i + 1].val]]
    ELSE [shape |-> "invalid", ts |-> 0, data |-> <<>>]

\* an entry that is exactly CACHE_EXPIRY_HOURS old still counts
FreshInclusive(t, ts) == t - ts <= Expiry

\* datetime.utcnow() - cached_time < expiry
Fresh(t, ts) == t - ts < Expiry

\* BaseScraper._get_cached on the file at cache_path, read at time t
get_cached(file, t) ==
    IF ~file.exists THEN NoneV
    ELSE LET j == json_load(file.blocks) IN
         CASE j.shape = "invalid" -> NoneV
           [] j.shape = "list" -> Raised("TypeError")
           [] j.shape = "obj_no_ts" -> NoneV
           [] j.shape = "obj_num_ts" -> Raised("TypeError")
           [] j.shape = "obj_bad_ts" -> NoneV
           [] j.shape = "obj_no_data" -> NoneV
           [] OTHER -> IF Fresh(t, j.ts) THEN Text(j.data) ELSE NoneV

\* f.write(chunk) at file position pos (0-based); a position past the end
\* leaves a hole
WriteAt(blocks, pos, b) ==
    [i \in 1..(IF pos + 1 > Len(blocks) THEN pos + 1 ELSE Len(blocks)) |->
        IF i = pos + 1 THEN b
        ELSE IF i <= Len(blocks) THEN blocks[i]
        ELSE Block("hole", 0)]

\* ------------------------------------------------------------ state
VARIABLES
    now,                \* the wall clock, in seconds
    last_request_time,  \* BaseScraper.last_request_time, per fetcher instance
    cache,              \* the files of CACHE_DIR, by file name
    fetcherOf,          \* the BaseScraper instance each worker calls
    budget,             \* fetch_url calls each worker still makes
    op,                 \* the method each worker's caller invoked
    pc,                 \* each worker's position in it
    url, use_cache,     \* the arguments of the call
    attempt,            \* the loop variable of the retry loop
    cached,             \* what _get_cached returned
    obs,                \* what _get_cached read and when, and the state it was called in
    resp,               \* response.text (the data to cache), None before a response
    result,             \* what fetch_url returned or raised
    wakeAt,             \* when the current time.sleep ends
    wr,                 \* _set_cached in progress: its timestamp and file position
    natt,               \* session.get calls of the current fetch_url call
    netLog,             \* the last session.get call (who, when) and its distance from the one before
    usedCache,          \* some call so far had use_cache=True
    lastPut,            \* per file, the last completed _set_cached
    sd_pc,              \* seed_database: where the run is
    runs,               \* seed_database: runs started so far
    resort_list,        \* seed_database: the slugs get_resort_list returned
    idx,                \* seed_database: resorts of the list gone through
    count,              \* seed_database: count
    ret,                \* seed_database: the value returned, as <<v>>
    session,            \* the SQLAlchemy session: the repository as the run sees it
    db,                 \* the repository as committed
    merged,             \* the rows add_resort_to_db merged in this run, by slug
    scr,                \* the last scrape_resort call: its inputs and outcome
    app_pc,             \* the operation on the repository or a forecast source just done
    mrg,                \* the last add_resort_to_db call: its record and the session before
    located,            \* the slugs some merged record had coordinates for
    merges,             \* add_resort_to_db calls so far
    req,                \* the last request to the API: its query parameters
    res,                \* the response to it
    fcast               \* the last call of a forecast source: its input and outcome

locals == <<op, pc, url, use_cache, attempt, cached, obs, resp, result, wakeAt, wr, natt>>
fetchVars == <<now, last_request_time, cache, fetcherOf, budget, locals, netLog,
               usedCache, lastPut>>
seedVars == <<sd_pc, runs, resort_list, idx, count, ret, session, db, merged, scr>>
appVars == <<app_pc, mrg, located, merges, req, res, fcast>>
vars == <<fetchVars, seedVars, appVars>>

NoNet == [n |-> 0, w |-> "w1", t |-> 0, prev |-> "w1", gap |-> SCRAPER_RATE_LIMIT]
NoWr == [ts |-> 0, pos |-> 0]
NoPut == [done |-> FALSE, ts |-> 0, data |-> <<>>]
NoObs == [got |-> FALSE, file |-> NoFile, at |-> 0, put |-> NoPut, lrt |-> 0]

\* ------------------------------------------------------------ extraction
\* a dict key that is missing, or its value
Unset == <<>>
Val(v) == <<v>>

\* what fetch_url hands its caller: a text, None, or an exception that is no
\* RequestException (from _set_cached or _get_cached)
FetchOutcomes ==
    {Text(p) : p \in Payloads} \cup {NoneV, Raised("OSError"), Raised("TypeError")}

\* data['description'] = item['description'][:1000]
DESCRIPTION_LIMIT == 1000
Truncate(d) == SubSeq(d, 1, IF Len(d) < DESCRIPTION_LIMIT THEN Len(d) ELSE DESCRIPTION_LIMIT)

\* One item of a JSON-LD block.  kind "str": the item is a JSON string, not an
\* object.  type: '@type' is 'SkiResort'.  geo: "absent", "ok" (latitude and
\* longitude v), "nolat" (latitude null), "text" (geo is a string).  desc: it
\* has a description.  addr: "absent", "dict" (addressRegion v), "text".
ItemGeo(v) == [kind |-> "obj", type |-> TRUE, geo |-> "ok", desc |-> TRUE,
               addr |-> "dict", v |-> v]
ItemStr == [kind |-> "str", type |-> FALSE, geo |-> "absent", desc |-> FALSE,
            addr |-> "absent", v |-> 0]
ItemPlain == [kind |-> "obj", type |-> FALSE, geo |-> "absent", desc |-> TRUE,
              addr |-> "absent", v |-> 9]
ItemNoLat == [kind |-> "obj", type |-> TRUE, geo |-> "nolat", desc |-> TRUE,
              addr |-> "dict", v |-> 3]
\* a <script type="application/ld+json">: its items, or text that is no JSON
Script(items) == [valid |-> TRUE, items |-> items]
BadScript == [valid |-> FALSE, items |-> <<>>]
ScriptLists ==
    { <<>>,
      <<Script(<<ItemGeo(1)>>)>>,
      <<Script(<<ItemPlain, ItemGeo(1)>>), Script(<<ItemGeo(2)>>)>>,
      <<BadScript, Script(<<ItemNoLat>>)>>,
      <<Script(<<ItemStr>>)>> }

\* The rest of a resort page.  altitude: the two numbers of the first text
\* "<int>m - <int>m", or none.  snow: "none", "panel" (a 'Current information'
\* div), "labels" ('Mountain:' and 'Valley:' labels, the numbers mountain and
\* valley in the next sibling of their parent), "nosibling" (the labels' parent
\* has no next sibling).  status: the text of the status element, if any:
\* "none", "open", "closed", "other".
Bodies ==
    { [altitude |-> <<1000, 2000>>, snow |-> "labels", mountain |-> 120,
       valley |-> 40, status |-> "open"],
      [altitude |-> <<1000, 2000>>, snow |-> "panel", mountain |-> 120,
       valley |-> 40, status |-> "other"],
      [altitude |-> <<>>, snow |-> "nosibling", mountain |-> 0, valley |-> 0,
       status |-> "none"] }
Docs ==
    { [h1 |-> h, scripts |-> sc, altitude |-> b.altitude, snow |-> b.snow,
       mountain |-> b.mountain, valley |-> b.valley, status |-> b.status] :
      h \in BOOLEAN, sc \in ScriptLists, b \in Bodies }

\* One '.day' element of the forecast page.  temps: the numbers in its '.temp'
\* nodes.  snow: "absent", "int" (a '.snow' node with the number cm), "noint"
\* (one without a number).  img: it holds an <img>.
Day(temps, snow, cm, img) == [temps |-> temps, snow |-> snow, cm |-> cm, img |-> img]
DayPlain == Day(<<3, 7>>, "int", 5, FALSE)
DayBare == Day(<<3>>, "absent", 0, FALSE)
DayImg == Day(<<3, 7>>, "noint", 0, TRUE)
DayDry == Day(<<3, 7>>, "noint", 0, FALSE)
\* The forecast page: has it a '.forecast9d' container, and the days in it
ForecastDocs ==
    { [container |-> FALSE, days |-> <<>>],
      [container |-> TRUE, days |-> <<DayPlain, DayBare>>],
      [container |-> TRUE, days |-> <<DayPlain, DayImg>>],
      [container |-> TRUE, days |-> <<DayPlain, DayDry>>] }
\* days[:7]
FORECAST_DAYS == 7
SeqMax(q) == CHOOSE x \in {q[i] : i \in 1..Len(q)} : \A j \in 1..Len(q) : q[j] <= x
SeqMin(q) == CHOOSE x \in {q[i] : i \in 1..Len(q)} : \A j \in 1..Len(q) : q[j] >= x

\* the forecast dict of day element number i (from 0): the date is today + i
ForecastOf(day, i) ==
    [date |-> i,
     temp_max |-> IF Len(day.temps) >= 2 THEN Val(SeqMax(day.temps)) ELSE Unset,
     temp_min |-> IF Len(day.temps) >= 2 THEN Val(SeqMin(day.temps)) ELSE Unset,
     snow_forecast_cm |-> CASE day.snow = "absent" -> Val(0)
                            [] day.snow = "int" -> Val(day.cm)
                            [] OTHER -> Unset,
     symbol |-> Unset]

\* BergfexScraper.scrape_forecast, given what fetch_url returned for the
\* forecast page and the page.  An exception of fetch_url leaves it, for the
\* call is outside the try.  In the try, a day with an <img> reaches
\* os.path.basename with os not imported: NameError, caught, [] returned.
scrape_forecast(ff, fdoc) ==
    IF IsRaised(ff) THEN [raised |-> TRUE, list |-> <<>>]
    ELSE IF ~Truthy(ff) \/ ~fdoc.container THEN [raised |-> FALSE, list |-> <<>>]
    ELSE LET n == IF Len(fdoc.days) < FORECAST_DAYS THEN Len(fdoc.days)
                  ELSE FORECAST_DAYS
         IN IF \E i \in 1..n : fdoc.days[i].img
            THEN [raised |-> FALSE, list |-> <<>>]
            ELSE [raised |-> FALSE,
                  list |-> [i \in 1..n |-> ForecastOf(fdoc.days[i], i - 1)]]

\* the keys a conditions dict can hold (the columns of Conditions), and {}
NoConditions ==
    [snow_depth_valley |-> Unset, snow_depth_mountain |-> Unset,
     fresh_snow_24h |-> Unset, fresh_snow_48h |-> Unset,
     temperature_valley |-> Unset, temperature_mountain |-> Unset,
     wind_speed |-> Unset, visibility |-> Unset, slopes_open_km |-> Unset,
     slopes_total_km |-> Unset, lifts_open |-> Unset, lifts_total |-> Unset,
     status |-> Unset]
\* the keys a pricing dict can hold, and {}
NoPricing == [adult_day_pass |-> Unset, child_day_pass |-> Unset, currency |-> Unset]
\* data = {'url': resort_url, 'conditions': {}, 'pricing': {}, 'forecasts': []}
EmptyData ==
    [name |-> Unset, country |-> Unset, latitude |-> Unset, longitude |-> Unset,
     description |-> Unset, region |-> Unset, altitude_min |-> Unset,
     altitude_max |-> Unset, conditions |-> NoConditions, pricing |-> NoPricing,
     forecasts |-> <<>>]

\* 2. Coordinates from JSON-LD: the items of one block, from item i on.  end is
\* "ok", "caught" (an exception the inner except catches: the rest of the block
\* is skipped) or "fatal" (an AttributeError, which it does not catch).
RECURSIVE ItemsPass(_, _, _)
ItemsPass(data, items, i) ==
    IF i > Len(items) THEN [data |-> data, end |-> "ok"]
    ELSE LET item == items[i] IN
         IF item.kind = "str" THEN [data |-> data, end |-> "fatal"]
         ELSE IF ~(item.type \/ item.geo # "absent")
         THEN ItemsPass(data, items, i + 1)
         ELSE IF item.geo = "text" THEN [data |-> data, end |-> "fatal"]
         ELSE IF item.geo = "nolat" THEN [data |-> data, end |-> "caught"]
         ELSE LET d1 == IF item.geo = "ok"
                        THEN [data EXCEPT !.latitude = Val(item.v),
                                          !.longitude = Val(item.v)]
                        ELSE data
                  d2 == IF item.desc
                        THEN [d1 EXCEPT !.description = Val(Truncate(<<item.v>>))]
                        ELSE d1
              IN IF item.addr = "text" THEN [data |-> d2, end |-> "fatal"]
                 ELSE ItemsPass(IF item.addr = "dict"
                                THEN [d2 EXCEPT !.region = Val(item.v)]
                                ELSE d2,
                                items, i + 1)

\* for script in scripts: a block that is no JSON is skipped
RECURSIVE ScriptsPass(_, _, _)
ScriptsPass(data, scripts, k) ==
    IF k > Len(scripts) THEN [data |-> data, fatal |-> FALSE]
    ELSE IF ~scripts[k].valid THEN ScriptsPass(data, scripts, k + 1)
    ELSE LET r == ItemsPass(data, scripts[k].items, 1) IN
         IF r.end = "fatal" THEN [data |-> r.data, fatal |-> TRUE]
         ELSE ScriptsPass(r.data, scripts, k + 1)

\* 1. Basic Info: the text of the first <h1>
TitlePass(data, doc) == IF doc.h1 THEN [data EXCEPT !.name = Val("title")] ELSE data

\* 3. Altitude
AltitudePass(data, doc) ==
    IF doc.altitude # <<>>
    THEN [data EXCEPT !.altitude_min = Val(doc.altitude[1]),
                      !.altitude_max = Val(doc.altitude[2])]
    ELSE data

\* 4. Snow conditions: nothing is read from the panel; without one, the labels
SnowPass(data, doc) ==
    IF doc.snow = "labels"
    THEN [data EXCEPT !.conditions.snow_depth_mountain = Val(doc.mountain),
                      !.conditions.snow_depth_valley = Val(doc.valley)]
    ELSE data

\* 5. Status
StatusPass(data, doc) ==
    CASE doc.status = "none" -> data
      [] doc.status = "open" -> [data EXCEPT !.conditions.status = Val("open")]
      [] doc.status = "closed" -> [data EXCEPT !.conditions.status = Val("closed")]
      [] OTHER -> [data EXCEPT !.conditions.status = Val("partial")]

ScrapeOut(kind, data, ran) == [kind |-> kind, data |-> data, ran |-> ran]

\* BergfexScraper.scrape_resort, given what fetch_url returned for the resort
\* page (fr), the page (doc), and the same for the forecast page (ff, fdoc).
\* kind is "raise" (an exception leaves it), "none" (it returns None) or "data"
\* (it returns data); ran is the set of passes that ran to their end.
scrape_resort(fr, doc, ff, fdoc) ==
    IF IsRaised(fr) THEN ScrapeOut("raise", EmptyData, {})
    ELSE IF ~Truthy(fr) THEN ScrapeOut("none", EmptyData, {})
    ELSE LET d1 == TitlePass(EmptyData, doc)
             p2 == ScriptsPass(d1, doc.scripts, 1)
             d5 == StatusPass(SnowPass(AltitudePass(p2.data, doc), doc), doc)
             fc == scrape_forecast(ff, fdoc)
         IN IF p2.fatal THEN ScrapeOut("none", EmptyData, {1})
            ELSE IF fc.raised THEN ScrapeOut("none", EmptyData, 1..5)
            ELSE ScrapeOut("data", [d5 EXCEPT !.forecasts = fc.list], 1..6)

\* ------------------------------------------------------------ repository
\* a row of Conditions, or none
NoCondRow ==
    [exists |-> FALSE, snow_depth_valley |-> Unset, snow_depth_mountain |-> Unset,
     fresh_snow_24h |-> Unset, fresh_snow_48h |-> Unset,
     temperature_valley |-> Unset, temperature_mountain |-> Unset,
     wind_speed |-> Unset, visibility |-> Unset, slopes_open_km |-> Unset,
     slopes_total_km |-> Unset, lifts_open |-> Unset, lifts_total |-> Unset,
     status |-> Unset]
\* a row of Pricing, or none
NoPriceRow ==
    [exists |-> FALSE, adult_day_pass |-> Unset, child_day_pass |-> Unset,
     currency |-> Unset]
\* a row of Resort with what hangs on it, or no row
NoRow ==
    [exists |-> FALSE, name |-> Unset, country |-> Unset, region |-> Unset,
     latitude |-> Unset, longitude |-> Unset, altitude_min |-> Unset,
     altitude_max |-> Unset, description |-> Unset, conditions |-> NoCondRow,
     pricing |-> NoPriceRow, forecasts |-> <<>>]

\* resort_data.get(key, default)
Get(v, default) == IF v = Unset THEN default ELSE v

\* add_resort_to_db(session, resort_data) for the resort with this slug: the
\* session after it, or raised when resort_data has no 'name' (KeyError)
add_resort_to_db(sess, slug, rd) ==
    IF rd.name = Unset THEN [raised |-> TRUE, session |-> sess]
    ELSE LET old == sess[slug]
             base ==
                 IF ~old.exists
                 THEN [NoRow EXCEPT
                         !.exists = TRUE, !.name = rd.name,
                         !.country = Get(rd.country, Val("Unknown")),
                         !.region = rd.region,
                         !.latitude = Get(rd.latitude, Val(0)),
                         !.longitude = Get(rd.longitude, Val(0)),
                         !.altitude_min = rd.altitude_min,
                         !.altitude_max = rd.altitude_max,
                         !.description = rd.description]
                 ELSE [old EXCEPT
                         !.name = rd.name,
                         !.region = Get(rd.region, old.region),
                         !.latitude = Get(rd.latitude, old.latitude),
                         !.longitude = Get(rd.longitude, old.longitude),
                         !.altitude_min = Get(rd.altitude_min, old.altitude_min),
                         !.altitude_max = Get(rd.altitude_max, old.altitude_max),
                         !.description = Get(rd.description, old.description)]
             cd == rd.conditions
             withCond ==
                 IF cd # NoConditions
                 THEN [base EXCEPT !.conditions =
                         [@ EXCEPT !.exists = TRUE,
                                   !.snow_depth_valley = cd.snow_depth_valley,
                                   !.snow_depth_mountain = cd.snow_depth_mountain,
                                   !.fresh_snow_24h = cd.fresh_snow_24h,
                                   !.temperature_valley = cd.temperature_valley,
                                   !.temperature_mountain = cd.temperature_mountain,
                                   !.status = Get(cd.status, Val("unknown"))]]
                 ELSE base
             pd == rd.pricing
             withPrice ==
                 IF pd # NoPricing
                 THEN [withCond EXCEPT !.pricing =
                         [@ EXCEPT !.exists = TRUE,
                                   !.adult_day_pass = pd.adult_day_pass,
                                   !.child_day_pass = pd.child_day_pass,
                                   !.currency = Get(pd.currency, Val("CHF"))]]
                 ELSE withCond
             withFc ==
                 IF rd.forecasts # <<>>
                 THEN [withPrice EXCEPT !.forecasts = rd.forecasts]
                 ELSE withPrice
         IN [raised |-> FALSE, session |-> [sess EXCEPT ![slug] = withFc]]

\* the resorts a listing page can name
NumResorts == 2
\* the longest listing a run is followed through: one resort more than a commit
\* batch
MaxList == 6
Slugs == 1..MaxList
\* the runs of seed_database
MaxRuns == 1
\* the add_resort_to_db calls of the script that merges records one by one
MaxMerges == 3

\* the database after init_db() on a new file
EmptyDb == [s \in Slugs |-> NoRow]
\* what an earlier run scraped for the first resort, from the page of its day
OldData ==
    [EmptyData EXCEPT
       !.name = Val("old title"), !.country = Val("Switzerland"),
       !.latitude = Val(8), !.longitude = Val(8),
       !.description = Val(<<8>>), !.region = Val(8),
       !.altitude_min = Val(900), !.altitude_max = Val(1900),
       !.conditions = [NoConditions EXCEPT !.snow_depth_mountain = Val(80),
                                           !.snow_depth_valley = Val(20),
                                           !.status = Val("closed")],
       !.forecasts = <<ForecastOf(DayPlain, 0)>>]
\* the databases a run can find: a new one, or the one that earlier run left
PriorDbs == {EmptyDb, add_resort_to_db(EmptyDb, 1, OldData).session}

\* the last call of scrape_resort: what it was given and what it gave
NoScrape == [called |-> FALSE, fr |-> NoneV, doc |-> CHOOSE d \in Docs : TRUE,
             out |-> ScrapeOut("none", EmptyData, {})]

InitRun ==
    /\ sd_pc = "idle"
    /\ runs = 0
    /\ resort_list = <<>>
    /\ idx = 0
    /\ count = 0
    /\ ret = Unset
    /\ merged = EmptyDb
    /\ scr = NoScrape

InitSeed ==
    /\ InitRun
    /\ db = EmptyDb
    /\ session = db

\* ------------------------------------------------------------ search
\* config.py: the search radius in km
DEFAULT_SEARCH_RADIUS_KM == 200
MAX_SEARCH_RADIUS_KM == 500
MIN_SEARCH_RADIUS_KM == 10

\* Lengths are in units of 0.01 km, so that a distance has two decimal places
UnitsPerKm == 100
Km(n) == n * UnitsPerKm

\* A query parameter: missing or empty (ArgNone), the text of a number (n is
\* the number; for a length, in units of 0.01 km), the text "nan", or another
\* text s.
ArgNone == [k |-> "none", n |-> 0, s |-> ""]
Num(n) == [k |-> "num", n |-> n, s |-> ""]
NaN == [k |-> "nan", n |-> 0, s |-> ""]
Str(t) == [k |-> "str", n |-> 0, s |-> t]

\* float(text), int(text): "ok" and the number, or "ValueError"; float takes
\* "nan" as well
ToFloat(a) ==
    CASE a.k = "num" -> [k |-> "num", n |-> a.n]
      [] a.k = "nan" -> [k |-> "nan", n |-> 0]
      [] OTHER -> [k |-> "ValueError", n |-> 0]
ToInt(a) ==
    IF a.k = "num" THEN [k |-> "num", n |-> a.n] ELSE [k |-> "ValueError", n |-> 0]

\* request.args.get(key, default, type=float): the default when the parameter
\* is missing or float() raises ValueError
ArgFloat(a, default) ==
    IF a.k = "none" \/ ToFloat(a).k = "ValueError" THEN default ELSE ToFloat(a)

\* Python's min(a, b) and max(a, b) on floats: b is taken only when it compares
\* smaller (greater) than a, and nan compares false with everything
PyMin(a, b) == IF a.k = "num" /\ b.k = "num" /\ b.n < a.n THEN b ELSE a
PyMax(a, b) == IF a.k = "num" /\ b.k = "num" /\ b.n > a.n THEN b ELSE a

\* radius = min(radius, MAX); radius = max(radius, MIN)
EffectiveRadius(a) ==
    PyMax(PyMin(ArgFloat(a, [k |-> "num", n |-> Km(DEFAULT_SEARCH_RADIUS_KM)]),
                [k |-> "num", n |-> Km(MAX_SEARCH_RADIUS_KM)]),
          [k |-> "num", n |-> Km(MIN_SEARCH_RADIUS_KM)])

Abs(x) == IF x < 0 THEN 0 - x ELSE x

\* geodesic((lat1, lon1), (lat2, lon2)).kilometers.  The places of the model
\* lie on one line, each at the point its latitude and its longitude both
\* name, in units of 0.01 km: the distance of two of them is the difference.
calculate_distance(lat1, lon1, lat2, lon2) ==
    IF Abs(lat1 - lat2) > Abs(lon1 - lon2) THEN Abs(lat1 - lat2) ELSE Abs(lon1 - lon2)

\* round(distance, 1) of a distance with two decimal places: to the nearest
\* tenth of a km, a tie to the even tenth
Round1(d) ==
    LET r == d % 10
        down == d - r
    IN CASE r < 5 -> down
         [] r > 5 -> down + 10
         [] OTHER -> IF (down \div 10) % 2 = 0 THEN down ELSE down + 10

\* the query parameters of a request
Args(lat, lng, radius, min_snow, status, min_slopes, max_price, country, sort) ==
    [lat |-> lat, lng |-> lng, radius |-> radius, min_snow |-> min_snow,
     status |-> status, min_slopes |-> min_slopes, max_price |-> max_price,
     country |-> country, sort |-> sort]

\* the rows of Resort, in the order of the model's slugs
AllResorts(rows) == {sl \in Slugs : rows[sl].exists}

\* 'key in filters and filters[key]': the parameter is there and not empty
Given(a) == a.k # "none"

\* a column compared with a number: NULL satisfies no comparison
AtLeast(col, n) == col # Unset /\ col[1] >= n
AtMost(col, n) == col # Unset /\ col[1] <= n

\* apply_filters(query, filters), and query.all() on what it returns.  int()
\* and float() raise ValueError on a text that is no number; each of the three
\* filters on Conditions adds its own JOIN of that table, and a statement that
\* joins the table twice is rejected by the database (OperationalError).
apply_filters(rows, f) ==
    LET snow == ToInt(f.min_snow)
        slopes == ToFloat(f.min_slopes)
        price == ToFloat(f.max_price)
        joins == Cardinality({x \in {"min_snow", "status", "min_slopes"} : Given(f[x])})
        keep(sl) ==
            LET r == rows[sl] IN
            /\ Given(f.min_snow) =>
                   r.conditions.exists /\ AtLeast(r.conditions.snow_depth_mountain, snow.n)
            /\ Given(f.status) =>
                   r.conditions.exists /\ r.conditions.status = Val(f.status.s)
            /\ Given(f.min_slopes) =>
                   r.conditions.exists /\ slopes.k = "num"
                   /\ AtLeast(r.conditions.slopes_open_km, slopes.n)
            /\ Given(f.max_price) =>
                   r.pricing.exists /\ price.k = "num"
                   /\ AtMost(r.pricing.adult_day_pass, price.n)
            /\ Given(f.country) => r.country = Val(f.country.s)
    IN IF \/ Given(f.min_snow) /\ snow.k = "ValueError"
          \/ Given(f.min_slopes) /\ slopes.k = "ValueError"
          \/ Given(f.max_price) /\ price.k = "ValueError"
       THEN [outcome |-> "ValueError", slugs |-> {}]
       ELSE IF joins >= 2 THEN [outcome |-> "OperationalError", slugs |-> {}]
       ELSE [outcome |-> "ok", slugs |-> {sl \in AllResorts(rows) : keep(sl)}]

\* the slugs of a set in the order query.all() gives the rows: by slug
RECURSIVE InOrder(_)
InOrder(S) ==
    IF S = {} THEN <<>>
    ELSE LET m == CHOOSE x \in S : \A y \in S : x <= y
         IN <<m>> \o InOrder(S \ {m})

\* the names of the model in the order of str comparison
NameOrder == <<"Arosa", "Zermatt", "old title", "title">>
NameKey(name) == CHOOSE i \in 1..Len(NameOrder) : NameOrder[i] = name

\* resort.to_dict() with distance_km attached: 'conditions' and 'pricing' are
\* keys of it only when the resort has the row
Entry(sl, row, d) ==
    [slug |-> sl, name |-> row.name[1], distance_km |-> d,
     conditions |-> row.conditions, pricing |-> row.pricing]

\* the sort keys of search_resorts; Unset is None
DistanceKey(e) == Val(e.distance_km)
NameSortKey(e) == Val(NameKey(e.name))
\* x.get('pricing', {}).get('adult_day_pass', 999)
PRICE_SENTINEL == 999
PriceKey(e) == IF e.pricing.exists THEN e.pricing.adult_day_pass ELSE Val(PRICE_SENTINEL)
\* x.get('conditions', {}).get('snow_depth_mountain', 0)
SnowKey(e) == IF e.conditions.exists THEN e.conditions.snow_depth_mountain ELSE Val(0)

\* list.sort(key=..., reverse=...) on the entries with these keys: TypeError
\* when two keys are compared and one is None, which happens whenever the list
\* has two entries or more; otherwise the stable order by key, for reverse the
\* stable order by descending key
PySort(list, keys, reverse) ==
    LET n == Len(list)
        before(j, i) ==
            \/ IF reverse THEN keys[j][1] > keys[i][1] ELSE keys[j][1] < keys[i][1]
            \/ keys[j][1] = keys[i][1] /\ j < i
        place(i) == Cardinality({j \in 1..n \ {i} : before(j, i)}) + 1
    IN IF n >= 2 /\ \E i \in 1..n : keys[i] = Unset
       THEN [raised |-> TRUE, list |-> <<>>]
       ELSE [raised |-> FALSE,
             list |-> [q \in 1..n |-> list[CHOOSE i \in 1..n : place(i) = q]]]

\* the answers of the API: the HTTP status, the radius echoed, the resorts
Answer(code, radius, resorts) == [code |-> code, radius |-> radius, resorts |-> resorts]
NoRadius == [k |-> "none", n |-> 0]

\* search_resorts() on the repository rows for the query parameters a
search_resorts(rows, a) ==
    LET lat == ArgFloat(a.lat, NoRadius)
        lng == ArgFloat(a.lng, NoRadius)
        radius == EffectiveRadius(a.radius)
        found == apply_filters(rows, a)
        all_resorts == InOrder(found.slugs)
        distance(sl) == calculate_distance(lat.n, lng.n, rows[sl].latitude[1],
                                           rows[sl].longitude[1])
        near == SelectSeq(all_resorts,
                          LAMBDA sl : radius.k = "num" /\ distance(sl) <= radius.n)
        nearby_resorts == [i \in 1..Len(near) |->
                              Entry(near[i], rows[near[i]], Round1(distance(near[i])))]
        keysOf(K(_)) == [i \in 1..Len(near) |-> K(nearby_resorts[i])]
        sort_by == IF a.sort.k = "none" THEN "distance" ELSE a.sort.s
        sorted ==
            CASE sort_by = "distance" -> PySort(nearby_resorts, keysOf(DistanceKey), FALSE)
              [] sort_by = "name" -> PySort(nearby_resorts, keysOf(NameSortKey), FALSE)
              [] sort_by = "price" -> PySort(nearby_resorts, keysOf(PriceKey), FALSE)
              [] sort_by = "snow" -> PySort(nearby_resorts, keysOf(SnowKey), TRUE)
              [] OTHER -> [raised |-> FALSE, list |-> nearby_resorts]
    IN IF lat.k = "none" \/ lng.k = "none" THEN Answer(400, NoRadius, <<>>)
       ELSE IF found.outcome # "ok" \/ sorted.raised THEN Answer(500, NoRadius, <<>>)
       ELSE Answer(200, radius, sorted.list)

\* get_all_resorts() on the repository rows for the query parameters a
get_all_resorts(rows, a) ==
    LET found == apply_filters(rows, a)
        all_resorts == InOrder(found.slugs)
    IN IF found.outcome # "ok" THEN Answer(500, NoRadius, <<>>)
       ELSE Answer(200, NoRadius,
                   [i \in 1..Len(all_resorts) |->
                       Entry(all_resorts[i], rows[all_resorts[i]], 0)])

\* ------------------------------------------------------------ weather_service.py
\* _map_weather_code(code): the symbol of a WMO code, "unknown" for the codes
\* the mapping lacks and for null
WeatherSymbol(code) ==
    CASE code = Val(0) -> "sunny"
      [] code = Val(3) -> "cloudy"
      [] code = Val(71) -> "snow"
      [] code = Val(73) -> "snow"
      [] OTHER -> "unknown"

\* An array of data["daily"]: the key is missing, or its values, null as Unset
NoArray == [present |-> FALSE, vals |-> <<>>]
Array(vals) == [present |-> TRUE, vals |-> vals]
\* What the API call gives.  kind: "error" (requests.get or raise_for_status
\* raises), "notjson" (response.json() raises), "nodaily", "daily".  The times
\* are day numbers, the snowfall sums are in tenths of a cm.
ApiResponse(kind, time, tmax, tmin, snow, code) ==
    [kind |-> kind, time |-> time, temperature_2m_max |-> tmax,
     temperature_2m_min |-> tmin, snowfall_sum |-> snow, weathercode |-> code]
ApiGood ==
    ApiResponse("daily", Array(<<Val(0), Val(1)>>), Array(<<Val(3), Val(4)>>),
                Array(<<Val(-2), Val(-1)>>), Array(<<Val(0), Val(27)>>),
                Array(<<Val(0), Val(71)>>))
ApiResponses ==
    { ApiResponse("error", NoArray, NoArray, NoArray, NoArray, NoArray),
      ApiResponse("notjson", NoArray, NoArray, NoArray, NoArray, NoArray),
      ApiResponse("nodaily", NoArray, NoArray, NoArray, NoArray, NoArray),
      ApiGood,
      [ApiGood EXCEPT !.snowfall_sum = Array(<<Val(0), Unset>>)],
      [ApiGood EXCEPT !.temperature_2m_max = Array(<<Val(3), Unset>>),
                      !.weathercode = Array(<<Val(0), Unset>>)],
      [ApiGood EXCEPT !.temperature_2m_min = NoArray],
      [ApiGood EXCEPT !.weathercode = Array(<<Val(0)>>)],
      [ApiGood EXCEPT !.time = Array(<<Val(0), Unset>>)] }

\* int(x) of a float given in tenths: towards zero
IntOfTenths(x) == IF x >= 0 THEN x \div 10 ELSE 0 - ((0 - x) \div 10)

\* WeatherService.get_forecast, given what the API call gives: everything is
\* inside 'try ... except Exception: return []'.  A missing array is a
\* KeyError, a short one an IndexError, a null time or snowfall a TypeError;
\* a null temperature or code is taken as it is.
get_forecast(r) ==
    IF r.kind # "daily" THEN <<>>
    ELSE IF ~r.time.present THEN <<>>
    ELSE LET n == Len(r.time.vals)
             arrays == {r.temperature_2m_max, r.temperature_2m_min,
                        r.snowfall_sum, r.weathercode}
         IN IF \E x \in arrays : ~x.present \/ Len(x.vals) < n THEN <<>>
            ELSE IF \E i \in 1..n : r.time.vals[i] = Unset \/ r.snowfall_sum.vals[i] = Unset
            THEN <<>>
            ELSE [i \in 1..n |->
                     [date |-> r.time.vals[i][1],
                      temp_max |-> r.temperature_2m_max.vals[i],
                      temp_min |-> r.temperature_2m_min.vals[i],
                      snow_forecast_cm |-> Val(IntOfTenths(r.snowfall_sum.vals[i][1])),
                      symbol |-> Val(WeatherSymbol(r.weathercode.vals[i]))]]

\* ------------------------------------------------------------ the operations observed
\* A record of get_sample_resorts_switzerland, with coordinates on the model's line
SampleRecord ==
    [EmptyData EXCEPT
       !.name = Val("Zermatt"), !.country = Val("Switzerland"), !.region = Val(5),
       !.latitude = Val(4), !.longitude = Val(4),
       !.altitude_min = Val(1620), !.altitude_max = Val(3883),
       !.conditions =
           [NoConditions EXCEPT
              !.snow_depth_valley = Val(25), !.snow_depth_mountain = Val(180),
              !.fresh_snow_24h = Val(5), !.temperature_valley = Val(-3),
              !.temperature_mountain = Val(-12), !.wind_speed = Val(15),
              !.visibility = Val("good"), !.slopes_open_km = Val(320),
              !.slopes_total_km = Val(360), !.lifts_open = Val(48),
              !.lifts_total = Val(52), !.status = Val("open")],
       !.pricing = [adult_day_pass |-> Val(89), child_day_pass |-> Val(45),
                    currency |-> Val("CHF")]]
\* what seed_database makes of a scraped record: slug and country are added
Scraped(doc, ff, fdoc) ==
    [scrape_resort(Text(<<1>>), doc, ff, fdoc).data EXCEPT !.country = Val("Switzerland")]
\* a page with a title, snow labels and a status but no JSON-LD block, and a
\* forecast of two days
ScrapedNoGeo ==
    Scraped([h1 |-> TRUE, scripts |-> <<>>, altitude |-> <<1000, 2000>>,
             snow |-> "labels", mountain |-> 120, valley |-> 40, status |-> "open"],
            Text(<<1>>), [container |-> TRUE, days |-> <<DayPlain, DayBare>>])
\* a page with coordinates and a status but no snow depth; no forecast page
ScrapedStatusOnly ==
    Scraped([h1 |-> TRUE, scripts |-> <<Script(<<ItemGeo(1)>>)>>,
             altitude |-> <<1000, 2000>>, snow |-> "panel", mountain |-> 120,
             valley |-> 40, status |-> "other"],
            NoneV, [container |-> FALSE, days |-> <<>>])
\* records of other callers of add_resort_to_db
PriceyRecord ==
    [EmptyData EXCEPT
       !.name = Val("Arosa"), !.country = Val("Austria"),
       !.latitude = Val(4), !.longitude = Val(4),
       !.conditions = [NoConditions EXCEPT !.snow_depth_mountain = Val(60),
                                           !.fresh_snow_48h = Val(10),
                                           !.status = Val("closed")],
       !.pricing = [NoPricing EXCEPT !.adult_day_pass = Val(1200)]]
ChildPriceRecord ==
    [EmptyData EXCEPT
       !.name = Val("Arosa"), !.country = Val("Austria"),
       !.pricing = [NoPricing EXCEPT !.child_day_pass = Val(40)]]
MergeInputs ==
    {SampleRecord, ScrapedNoGeo, ScrapedStatusOnly, PriceyRecord, ChildPriceRecord}

\* the places searches start from, on the model's line
Origins == {0, 1008, 60000}
\* the radius parameters: none, 5 km, 10.07 km, 10000 km, "nan", a word
RadiusArgs == {ArgNone, Num(500), Num(1007), Num(1000000), NaN, Str("far")}
\* a request with coordinates o, a radius and nothing else
Around(o, radius) ==
    Args(Num(o), Num(o), radius, ArgNone, ArgNone, ArgNone, ArgNone, ArgNone, ArgNone)
\* the filter and sort parameters of the requests
FilterRequests ==
    { [Around(0, ArgNone) EXCEPT !.min_snow = Num(100)],
      [Around(0, ArgNone) EXCEPT !.min_snow = Str("deep")],
      [Around(0, ArgNone) EXCEPT !.status = Str("open")],
      [Around(0, ArgNone) EXCEPT !.min_slopes = Num(300)],
      [Around(0, ArgNone) EXCEPT !.max_price = Num(100)],
      [Around(0, ArgNone) EXCEPT !.max_price = Str("cheap")],
      [Around(0, ArgNone) EXCEPT !.country = Str("Austria")],
      [Around(0, ArgNone) EXCEPT !.min_snow = Num(100), !.max_price = Num(100)],
      [Around(0, ArgNone) EXCEPT !.min_snow = Num(100), !.status = Str("open")],
      [Around(0, ArgNone) EXCEPT !.country = Str("Switzerland"), !.max_price = Num(100)] }
SortRequests ==
    { [Around(0, ArgNone) EXCEPT !.sort = Str(k)] :
      k \in {"distance", "name", "price", "snow", "newest"} }
SearchRequests ==
    {Around(o, r) : o \in Origins, r \in RadiusArgs}
    \cup {[Around(0, ArgNone) EXCEPT !.lat = ArgNone],
          [Around(0, ArgNone) EXCEPT !.lng = Str("east")]}
    \cup FilterRequests \cup SortRequests

NoMerge == [called |-> FALSE, slug |-> 1, rd |-> EmptyData, before |-> EmptyDb,
            raised |-> FALSE]
NoReq == [kind |-> "none", args |-> Around(0, ArgNone)]
NoAnswer == Answer(0, NoRadius, <<>>)
NoForecastCall ==
    [called |-> FALSE, source |-> "none", ff |-> NoneV,
     fdoc |-> [container |-> FALSE, days |-> <<>>],
     api |-> ApiResponse("error", NoArray, NoArray, NoArray, NoArray, NoArray),
     raised |-> FALSE, list |-> <<>>]

InitApp ==
    /\ app_pc = "idle"
    /\ mrg = NoMerge
    /\ located = {}
    /\ merges = 0
    /\ req = NoReq
    /\ res = NoAnswer
    /\ fcast = NoForecastCall

InitLocals ==
    /\ op = [w \in Workers |-> "fetch_url"]
    /\ pc = [w \in Workers |-> "idle"]
    /\ url = [w \in Workers |-> "u1"]
    /\ use_cache = [w \in Workers |-> FALSE]
    /\ attempt = [w \in Workers |-> 0]
    /\ cached = [w \in Workers |-> NoneV]
    /\ obs = [w \in Workers |-> NoObs]
    /\ resp = [w \in Workers |-> NoneV]
    /\ result = [w \in Workers |-> NoneV]
    /\ wakeAt = [w \in Workers |-> 0]
    /\ wr = [w \in Workers |-> NoWr]
    /\ natt = [w \in Workers |-> 0]

InitCommon ==
    /\ now = StartTime
    /\ last_request_time = [f \in Fetchers |-> 0]
    /\ InitLocals
    /\ netLog = NoNet
    /\ usedCache = FALSE
    /\ lastPut = [h \in Paths |-> NoPut]
    /\ InitApp

\* The sequential program: one worker, one BaseScraper; the cache directory
\* holds whatever earlier runs or other programs left in it.
Init ==
    /\ InitCommon
    /\ InitSeed
    /\ cache \in [Paths -> {NoFile} \cup MalformedFiles]
    /\ fetcherOf = [w \in Workers |-> "f1"]
    /\ budget = [w \in Workers |-> IF w = "w1" THEN MaxCalls ELSE 0]

\* ------------------------------------------------------------ fetch_url
\* fetch_url(url, use_cache) is called, use_cache one of the values in flags
Call(w, flags) ==
    /\ pc[w] = "idle"
    /\ budget[w] > 0
    /\ \E u \in Urls, c \in flags :
        /\ url' = [url EXCEPT ![w] = u]
        /\ use_cache' = [use_cache EXCEPT ![w] = c]
        /\ pc' = [pc EXCEPT ![w] = IF c THEN "get_cached" ELSE "rate_limit"]
        /\ usedCache' = (usedCache \/ c)
    /\ op' = [op EXCEPT ![w] = "fetch_url"]
    /\ UNCHANGED <<now, last_request_time, cache, fetcherOf, budget, attempt, cached,
                   obs, resp, result, wakeAt, wr, natt, netLog, lastPut>>
    /\ UNCHANGED <<seedVars, appVars>>

\* _get_cached(key) is called on its own
CallGet(w) ==
    /\ pc[w] = "idle"
    /\ budget[w] > 0
    /\ \E u \in Urls : url' = [url EXCEPT ![w] = u]
    /\ op' = [op EXCEPT ![w] = "_get_cached"]
    /\ pc' = [pc EXCEPT ![w] = "get_cached"]
    /\ UNCHANGED <<now, last_request_time, cache, fetcherOf, budget, use_cache, attempt,
                   cached, obs, resp, result, wakeAt, wr, natt, netLog, usedCache,
                   lastPut>>
    /\ UNCHANGED <<seedVars, appVars>>

\* _set_cached(key, data) is called on its own
CallPut(w) ==
    /\ pc[w] = "idle"
    /\ budget[w] > 0
    /\ \E u \in Urls, p \in Payloads :
        /\ url' = [url EXCEPT ![w] = u]
        /\ resp' = [resp EXCEPT ![w] = Text(p)]
    /\ op' = [op EXCEPT ![w] = "_set_cached"]
    /\ pc' = [pc EXCEPT ![w] = "set_cached"]
    /\ UNCHANGED <<now, last_request_time, cache, fetcherOf, budget, use_cache, attempt,
                   cached, obs, result, wakeAt, wr, natt, netLog, usedCache, lastPut>>
    /\ UNCHANGED <<seedVars, appVars>>

\* cached = self._get_cached(url); if cached: return cached.  Called on its
\* own, _get_cached returns to its caller whatever it found.
CheckCache(w) ==
    /\ pc[w] = "get_cached"
    /\ LET h == get_cache_path(url[w])
           file == cache[h]
           r == get_cached(file, now)
       IN /\ obs' = [obs EXCEPT ![w] =
                 [got |-> TRUE, file |-> file, at |-> now, put |-> lastPut[h],
                  lrt |-> last_request_time[fetcherOf[w]]]]
          /\ cached' = [cached EXCEPT ![w] = r]
          /\ IF op[w] = "_get_cached" \/ IsRaised(r) \/ Truthy(r)
             THEN /\ result' = [result EXCEPT ![w] = r]
                  /\ pc' = [pc EXCEPT ![w] = "done"]
             ELSE /\ pc' = [pc EXCEPT ![w] = "rate_limit"]
                  /\ UNCHANGED result
    /\ UNCHANGED <<now, last_request_time, cache, fetcherOf, budget, op, url, use_cache,
                   attempt, resp, wakeAt, wr, natt, netLog, usedCache, lastPut>>
    /\ UNCHANGED <<seedVars, appVars>>

\* _rate_limit: elapsed = time.time() - self.last_request_time; sleep if short
RateLimitCheck(w) ==
    /\ pc[w] = "rate_limit"
    /\ LET elapsed == now - last_request_time[fetcherOf[w]] IN
       IF elapsed < SCRAPER_RATE_LIMIT
       THEN /\ wakeAt' = [wakeAt EXCEPT ![w] = now + (SCRAPER_RATE_LIMIT - elapsed)]
            /\ pc' = [pc EXCEPT ![w] = "rl_sleep"]
       ELSE /\ pc' = [pc EXCEPT ![w] = "rl_stamp"]
            /\ UNCHANGED wakeAt
    /\ UNCHANGED <<now, last_request_time, cache, fetcherOf, budget, op, url, use_cache,
                   attempt, cached, obs, resp, result, wr, natt, netLog, usedCache,
                   lastPut>>
    /\ UNCHANGED <<seedVars, appVars>>

\* time.sleep(config.SCRAPER_RATE_LIMIT - elapsed) returns
RateLimitWake(w) ==
    /\ pc[w] = "rl_sleep"
    /\ now >= wakeAt[w]
    /\ pc' = [pc EXCEPT ![w] = "rl_stamp"]
    /\ UNCHANGED <<now, last_request_time, cache, fetcherOf, budget, op, url, use_cache,
                   attempt, cached, obs, resp, result, wakeAt, wr, natt, netLog,
                   usedCache, lastPut>>
    /\ UNCHANGED <<seedVars, appVars>>

\* self.last_request_time = time.time(); the retry loop starts at attempt 0
RateLimitStamp(w) ==
    /\ pc[w] = "rl_stamp"
    /\ last_request_time' = [last_request_time EXCEPT ![fetcherOf[w]] = now]
    /\ attempt' = [attempt EXCEPT ![w] = 0]
    /\ pc' = [pc EXCEPT ![w] = "request"]
    /\ UNCHANGED <<now, cache, fetcherOf, budget, op, url, use_cache, cached, obs, resp,
                   result, wakeAt, wr, natt, netLog, usedCache, lastPut>>
    /\ UNCHANGED <<seedVars, appVars>>

\* 2 ** attempt
RECURSIVE Pow2(_)
Pow2(n) == IF n = 0 THEN 1 ELSE 2 * Pow2(n - 1)

Min(a, b) == IF a < b THEN a ELSE b

\* the log after a session.get call of worker w at time `now`: n counts the calls
\* up to 2, gap is the time since the call before, capped at the rate limit
Logged(log, w) ==
    [n |-> Min(log.n + 1, 2), w |-> w, t |-> now, prev |-> log.w,
     gap |-> IF log.n = 0 THEN SCRAPER_RATE_LIMIT
             ELSE Min(now - log.t, SCRAPER_RATE_LIMIT)]

\* response = self.session.get(url, ...): the request goes out
Request(w) ==
    /\ pc[w] = "request"
    /\ netLog' = Logged(netLog, w)
    /\ natt' = [natt EXCEPT ![w] = @ + 1]
    /\ pc' = [pc EXCEPT ![w] = "await"]
    /\ UNCHANGED <<now, last_request_time, cache, fetcherOf, budget, op, url, use_cache,
                   attempt, cached, obs, resp, result, wakeAt, wr, usedCache, lastPut>>
    /\ UNCHANGED <<seedVars, appVars>>

\* session.get returns a 2xx response: its text is returned at once when the
\* cache is off, and cached first when it is on
RequestOk(w) ==
    /\ pc[w] = "await"
    /\ \E p \in Payloads :
        /\ resp' = [resp EXCEPT ![w] = Text(p)]
        /\ IF use_cache[w]
           THEN /\ pc' = [pc EXCEPT ![w] = "set_cached"]
                /\ UNCHANGED result
           ELSE /\ pc' = [pc EXCEPT ![w] = "done"]
                /\ result' = [result EXCEPT ![w] = Text(p)]
    /\ UNCHANGED <<now, last_request_time, cache, fetcherOf, budget, op, url, use_cache,
                   attempt, cached, obs, wakeAt, wr, natt, netLog, usedCache, lastPut>>
    /\ UNCHANGED <<seedVars, appVars>>

\* session.get(...) or raise_for_status() raises requests.RequestException
RequestFail(w) ==
    /\ pc[w] = "await"
    /\ IF attempt[w] = SCRAPER_MAX_RETRIES - 1
       THEN /\ result' = [result EXCEPT ![w] = NoneV]
            /\ pc' = [pc EXCEPT ![w] = "done"]
            /\ UNCHANGED wakeAt
       ELSE /\ wakeAt' = [wakeAt EXCEPT ![w] = now + Pow2(attempt[w])]
            /\ pc' = [pc EXCEPT ![w] = "backoff"]
            /\ UNCHANGED result
    /\ UNCHANGED <<now, last_request_time, cache, fetcherOf, budget, op, url, use_cache,
                   attempt, cached, obs, resp, wr, natt, netLog, usedCache, lastPut>>
    /\ UNCHANGED <<seedVars, appVars>>

\* time.sleep(2 ** attempt) returns; the loop takes the next attempt
Backoff(w) ==
    /\ pc[w] = "backoff"
    /\ now >= wakeAt[w]
    /\ attempt' = [attempt EXCEPT ![w] = @ + 1]
    /\ pc' = [pc EXCEPT ![w] = "request"]
    /\ UNCHANGED <<now, last_request_time, cache, fetcherOf, budget, op, url, use_cache,
                   cached, obs, resp, result, wakeAt, wr, natt, netLog, usedCache,
                   lastPut>>
    /\ UNCHANGED <<seedVars, appVars>>

\* _set_cached: the timestamp is taken, open(cache_path, 'w') truncates the file
SetCachedOpen(w) ==
    /\ pc[w] = "set_cached"
    /\ cache' = [cache EXCEPT ![get_cache_path(url[w])] = File(<<>>)]
    /\ lastPut' = [lastPut EXCEPT ![get_cache_path(url[w])] = NoPut]
    /\ wr' = [wr EXCEPT ![w] = [ts |-> now, pos |-> 0]]
    /\ pc' = [pc EXCEPT ![w] = "write"]
    /\ UNCHANGED <<now, last_request_time, fetcherOf, budget, op, url, use_cache, attempt,
                   cached, obs, resp, result, wakeAt, natt, netLog, usedCache>>
    /\ UNCHANGED <<seedVars, appVars>>

\* json.dump writes the next block at the file position; after the last one the
\* file is closed and fetch_url returns response.text (_set_cached itself
\* returns None)
SetCachedWrite(w) ==
    /\ pc[w] = "write"
    /\ LET h == get_cache_path(url[w])
           doc == json_dump(wr[w].ts, resp[w].text)
           last == wr[w].pos + 1 = Len(doc)
       IN /\ cache' = [cache EXCEPT
                 ![h] = File(WriteAt(cache[h].blocks, wr[w].pos, doc[wr[w].pos + 1]))]
          /\ IF last
             THEN /\ lastPut' = [lastPut EXCEPT
                         ![h] = [done |-> TRUE, ts |-> wr[w].ts, data |-> resp[w].text]]
                  /\ result' = [result EXCEPT
                         ![w] = IF op[w] = "_set_cached" THEN NoneV ELSE resp[w]]
                  /\ pc' = [pc EXCEPT ![w] = "done"]
                  /\ wr' = [wr EXCEPT ![w] = NoWr]
             ELSE /\ wr' = [wr EXCEPT ![w].pos = @ + 1]
                  /\ UNCHANGED <<lastPut, result, pc>>
    /\ UNCHANGED <<now, last_request_time, fetcherOf, budget, op, url, use_cache, attempt,
                   cached, obs, resp, wakeAt, natt, netLog, usedCache>>
    /\ UNCHANGED <<seedVars, appVars>>

\* open() or a write raises OSError (no permission, disk full): not a
\* RequestException, so it leaves fetch_url; the file stays as it is
SetCachedError(w) ==
    /\ pc[w] \in {"set_cached", "write"}
    /\ result' = [result EXCEPT ![w] = Raised("OSError")]
    /\ pc' = [pc EXCEPT ![w] = "done"]
    /\ wr' = [wr EXCEPT ![w] = NoWr]
    /\ UNCHANGED <<now, last_request_time, cache, fetcherOf, budget, op, url, use_cache,
                   attempt, cached, obs, resp, wakeAt, natt, netLog, usedCache, lastPut>>
    /\ UNCHANGED <<seedVars, appVars>>

\* fetch_url has returned (or raised) to its caller
Return(w) ==
    /\ pc[w] = "done"
    /\ pc' = [pc EXCEPT ![w] = "idle"]
    /\ op' = [op EXCEPT ![w] = "fetch_url"]
    /\ budget' = [budget EXCEPT ![w] = @ - 1]
    /\ url' = [url EXCEPT ![w] = "u1"]
    /\ use_cache' = [use_cache EXCEPT ![w] = FALSE]
    /\ attempt' = [attempt EXCEPT ![w] = 0]
    /\ cached' = [cached EXCEPT ![w] = NoneV]
    /\ obs' = [obs EXCEPT ![w] = NoObs]
    /\ resp' = [resp EXCEPT ![w] = NoneV]
    /\ result' = [result EXCEPT ![w] = NoneV]
    /\ wakeAt' = [wakeAt EXCEPT ![w] = 0]
    /\ natt' = [natt EXCEPT ![w] = 0]
    /\ UNCHANGED <<now, last_request_time, cache, fetcherOf, wr, netLog, usedCache,
                   lastPut>>
    /\ UNCHANGED <<seedVars, appVars>>

\* Worker w is in a call that takes time: an unfinished time.sleep, a request
\* on the network, or the caller between two fetch_url calls
Waiting(w) ==
    \/ pc[w] \in {"rl_sleep", "backoff"} /\ now < wakeAt[w]
    \/ pc[w] = "await"
    \/ pc[w] = "idle" /\ budget[w] > 0

\* The wall clock advances: by a second while some worker sleeps, waits for
\* the network or is between calls, by a long wait when every worker is between
\* calls.  The program's other steps take no time.
Tick ==
    /\ \E d \in TickSteps :
        /\ IF d = 1
           THEN /\ (now - StartTime) % LongWait < MaxTicks
                /\ \E w \in Workers : Waiting(w)
           ELSE /\ (now - StartTime) \div LongWait < MaxLong
                /\ \A w \in Workers : pc[w] = "idle"
                /\ \E w \in Workers : budget[w] > 0
        /\ now' = now + d
    /\ UNCHANGED <<last_request_time, cache, fetcherOf, budget, locals, netLog,
                   usedCache, lastPut>>
    /\ UNCHANGED <<seedVars, appVars>>

\* the steps of _rate_limit and of the retry loop
NetStep(w) ==
    \/ RateLimitCheck(w)
    \/ RateLimitWake(w)
    \/ RateLimitStamp(w)
    \/ Request(w)
    \/ RequestOk(w)
    \/ RequestFail(w)
    \/ Backoff(w)

\* the steps of _get_cached and _set_cached
CacheStep(w) ==
    \/ CheckCache(w)
    \/ SetCachedOpen(w)
    \/ SetCachedWrite(w)
    \/ SetCachedError(w)

Next ==
    \/ Tick
    \/ \E w \in Workers : Call(w, BOOLEAN) \/ NetStep(w) \/ CacheStep(w) \/ Return(w)

Spec == Init /\ [][Next]_vars

\* Workers that fetch concurrently with the cache off, as threads on one
\* BaseScraper or each with a BaseScraper of its own
InitRate ==
    /\ InitCommon
    /\ InitSeed
    /\ cache = [h \in Paths |-> NoFile]
    /\ fetcherOf \in {[w \in Workers |-> "f1"],
                      [w \in Workers |-> IF w = "w1" THEN "f1" ELSE "f2"]}
    /\ budget = [w \in Workers |-> ConcCalls]

NextRate ==
    \/ Tick
    \/ \E w \in Workers : Call(w, {FALSE}) \/ NetStep(w) \/ Return(w)

SpecRate == InitRate /\ [][NextRate]_vars

\* Independent callers of the cache store: each calls _get_cached and
\* _set_cached for the same key, in any interleaving, and no write fails
InitStore ==
    /\ InitCommon
    /\ InitSeed
    /\ cache = [h \in Paths |-> NoFile]
    /\ fetcherOf = [w \in Workers |-> "f1"]
    /\ budget = [w \in Workers |-> MaxCalls]

NextStore ==
    \E w \in Workers :
        \/ CallGet(w) \/ CallPut(w)
        \/ CheckCache(w) \/ SetCachedOpen(w) \/ SetCachedWrite(w)
        \/ Return(w)

SpecStore == InitStore /\ [][NextStore]_vars

\* ------------------------------------------------------------ seed_database
\* seed_database() is called: init_db(), get_session(); get_resort_list fetches
\* the listing page.  An exception of fetch_url lands in 'except Exception':
\* rollback, return 0.  No page, or a page that names no resort: return 0.
SeedBegin(longest) ==
    /\ sd_pc = "idle"
    /\ runs < MaxRuns
    /\ runs' = runs + 1
    /\ count' = 0
    /\ idx' = 0
    /\ merged' = EmptyDb
    /\ scr' = NoScrape
    /\ \E fr \in FetchOutcomes, n \in 0..longest :
        IF IsRaised(fr)
        THEN /\ session' = db
             /\ resort_list' = <<>>
             /\ ret' = Val(0)
             /\ sd_pc' = "returned"
        ELSE IF ~Truthy(fr) \/ n = 0
        THEN /\ resort_list' = <<>>
             /\ ret' = Val(0)
             /\ sd_pc' = "returned"
             /\ UNCHANGED session
        ELSE /\ resort_list' = [i \in 1..n |-> i]
             /\ ret' = Unset
             /\ sd_pc' = "loop"
             /\ UNCHANGED session
    /\ UNCHANGED db
    /\ UNCHANGED <<fetchVars, appVars>>

\* One turn of 'for r_info in resort_list[:scrape_limit]': scrape_resort, and
\* for a result that is not None add_resort_to_db, count += 1 and a commit when
\* count % 5 == 0.  An exception of either lands in 'except Exception'.
SeedTurn(pages, docs, fpages, fdocs) ==
    /\ sd_pc = "loop"
    /\ idx < Len(resort_list)
    /\ \E fr \in pages, doc \in docs, ff \in fpages, fdoc \in fdocs :
        LET slug == resort_list[idx + 1]
            out == scrape_resort(fr, doc, ff, fdoc)
            add == add_resort_to_db(session, slug,
                                    [out.data EXCEPT !.country = Val("Switzerland")])
        IN /\ scr' = [called |-> TRUE, fr |-> fr, doc |-> doc, out |-> out]
           /\ IF out.kind = "raise" \/ (out.kind = "data" /\ add.raised)
              THEN /\ session' = db
                   /\ ret' = Val(0)
                   /\ sd_pc' = "returned"
                   /\ UNCHANGED <<idx, count, merged, db>>
              ELSE IF out.kind = "none"
              THEN /\ idx' = idx + 1
                   /\ UNCHANGED <<session, count, merged, db, ret, sd_pc>>
              ELSE /\ idx' = idx + 1
                   /\ session' = add.session
                   /\ count' = count + 1
                   /\ merged' = [merged EXCEPT ![slug] = add.session[slug]]
                   /\ db' = IF (count + 1) % 5 = 0 THEN add.session ELSE db
                   /\ UNCHANGED <<ret, sd_pc>>
    /\ UNCHANGED <<runs, resort_list>>
    /\ UNCHANGED <<fetchVars, appVars>>

\* a run on a listing of up to NumResorts resorts, every page of the model
SeedStart == SeedBegin(NumResorts)
SeedResort == SeedTurn(FetchOutcomes, Docs, FetchOutcomes, ForecastDocs)

\* after the loop: session.commit(); return count
SeedFinish ==
    /\ sd_pc = "loop"
    /\ idx = Len(resort_list)
    /\ db' = session
    /\ ret' = Val(count)
    /\ sd_pc' = "returned"
    /\ UNCHANGED <<runs, resort_list, idx, count, session, merged, scr>>
    /\ UNCHANGED <<fetchVars, appVars>>

\* finally: session.close(); the script ends
SeedClose ==
    /\ sd_pc = "returned"
    /\ sd_pc' = "idle"
    /\ session' = db
    /\ UNCHANGED <<runs, resort_list, idx, count, ret, db, merged, scr>>
    /\ UNCHANGED <<fetchVars, appVars>>

\* a run of seed_database on a new database or on one an earlier run filled
InitBatch ==
    /\ InitCommon
    /\ InitRun
    /\ db \in PriorDbs
    /\ session = db
    /\ cache = [h \in Paths |-> NoFile]
    /\ fetcherOf = [w \in Workers |-> "f1"]
    /\ budget = [w \in Workers |-> 0]

NextSeed == SeedStart \/ SeedResort \/ SeedFinish \/ SeedClose

SpecSeed == InitBatch /\ [][NextSeed]_vars

\* A run on a listing of up to MaxList resorts, long enough for the commit of
\* 'if count % 5 == 0'.  The resort pages are two that give a record with a
\* name and one without <h1>; the forecast page is not fetched (None).
ListDocs ==
    {d \in Docs : /\ d.scripts \in {<<>>, <<Script(<<ItemGeo(1)>>)>>}
                  /\ d.snow = "labels"
                  /\ ~d.h1 => d.scripts = <<>>}
ListPages == {Text(<<1>>), NoneV, Raised("OSError")}
ListStart == SeedBegin(MaxList)
ListResort ==
    SeedTurn(ListPages, ListDocs, {NoneV}, {fd \in ForecastDocs : ~fd.container})

NextList == ListStart \/ ListResort \/ SeedFinish \/ SeedClose

SpecList == InitBatch /\ [][NextList]_vars

\* ------------------------------------------------------------ repository and API
\* add_resort_to_db(session, resort_data) and session.commit(), as the loop of
\* seed_database does for a record; an exception rolls the session back
Merge ==
    /\ app_pc = "idle"
    /\ merges < MaxMerges
    /\ merges' = merges + 1
    /\ \E sl \in 1..NumResorts, rd \in MergeInputs :
        LET add == add_resort_to_db(session, sl, rd) IN
        /\ mrg' = [called |-> TRUE, slug |-> sl, rd |-> rd, before |-> session,
                   raised |-> add.raised]
        /\ session' = IF add.raised THEN db ELSE add.session
        /\ db' = session'
        /\ located' = IF rd.latitude # Unset /\ rd.longitude # Unset
                      THEN located \cup {sl} ELSE located
    /\ app_pc' = "merged"
    /\ UNCHANGED <<req, res, fcast>>
    /\ UNCHANGED <<sd_pc, runs, resort_list, idx, count, ret, merged, scr>>
    /\ UNCHANGED fetchVars

\* GET /api/search
Search ==
    /\ app_pc = "idle"
    /\ \E a \in SearchRequests :
        /\ req' = [kind |-> "search", args |-> a]
        /\ res' = search_resorts(db, a)
    /\ app_pc' = "answered"
    /\ UNCHANGED <<mrg, located, merges, fcast>>
    /\ UNCHANGED <<fetchVars, seedVars>>

\* GET /api/resorts
ListResorts ==
    /\ app_pc = "idle"
    /\ \E a \in FilterRequests :
        /\ req' = [kind |-> "list", args |-> a]
        /\ res' = get_all_resorts(db, a)
    /\ app_pc' = "answered"
    /\ UNCHANGED <<mrg, located, merges, fcast>>
    /\ UNCHANGED <<fetchVars, seedVars>>

\* scrape_forecast(resort_url) is called
PageForecast ==
    /\ app_pc = "idle"
    /\ \E ff \in FetchOutcomes, fdoc \in ForecastDocs :
        LET out == scrape_forecast(ff, fdoc) IN
        fcast' = [NoForecastCall EXCEPT !.called = TRUE, !.source = "page",
                                        !.ff = ff, !.fdoc = fdoc,
                                        !.raised = out.raised, !.list = out.list]
    /\ app_pc' = "forecast"
    /\ UNCHANGED <<mrg, located, merges, req, res>>
    /\ UNCHANGED <<fetchVars, seedVars>>

\* WeatherService.get_forecast(lat, lng) is called
ApiForecast ==
    /\ app_pc = "idle"
    /\ \E r \in ApiResponses :
        fcast' = [NoForecastCall EXCEPT !.called = TRUE, !.source = "api", !.api = r,
                                        !.list = get_forecast(r)]
    /\ app_pc' = "forecast"
    /\ UNCHANGED <<mrg, located, merges, req, res>>
    /\ UNCHANGED <<fetchVars, seedVars>>

\* the operation is over: its locals are gone
Done ==
    /\ app_pc # "idle"
    /\ app_pc' = "idle"
    /\ mrg' = NoMerge
    /\ req' = NoReq
    /\ res' = NoAnswer
    /\ fcast' = NoForecastCall
    /\ UNCHANGED <<located, merges>>
    /\ UNCHANGED <<fetchVars, seedVars>>

\* the seeding script and the API server, one operation at a time, on a new
\* database
InitApi ==
    /\ InitCommon
    /\ InitSeed
    /\ cache = [h \in Paths |-> NoFile]
    /\ fetcherOf = [w \in Workers |-> "f1"]
    /\ budget = [w \in Workers |-> 0]

NextApi == Merge \/ Search \/ ListResorts \/ PageForecast \/ ApiForecast \/ Done

SpecApi == InitApi /\ [][NextApi]_vars

\* ------------------------------------------------------------ claims
\* The stored file is a well-formed entry ...
IsEntry(file) == file.exists /\ json_load(file.blocks).shape = "entry"
\* ... or something else
Malformed(file) == file.exists /\ json_load(file.blocks).shape # "entry"
EntryTs(file) == json_load(file.blocks).ts
EntryData(file) == json_load(file.blocks).data
\* Nothing stored, or one complete document of a payload some caller put
Complete(file) == ~file.exists \/ (IsEntry(file) /\ EntryData(file) \in Payloads)

\* C1: with the cache off in every call so far, any two consecutive network
\* attempts (session.get calls) of the fetcher, retries included, are at least
\* SCRAPER_RATE_LIMIT seconds apart.
C1_AttemptsSpaced ==
    (~usedCache /\ netLog.n = 2) => netLog.gap >= SCRAPER_RATE_LIMIT

\* C2: a fetch_url call makes at most SCRAPER_MAX_RETRIES network attempts; when
\* it has made SCRAPER_MAX_RETRIES of them and the last one got a 2xx response
\* it returns that response's text; when its last attempt failed it returns None
\* after exactly SCRAPER_MAX_RETRIES attempts.
C2_RetryOutcome ==
    \A w \in Workers :
        /\ natt[w] <= SCRAPER_MAX_RETRIES
        /\ (pc[w] = "done" /\ natt[w] = SCRAPER_MAX_RETRIES /\ resp[w].tag = "str")
               => result[w] = resp[w]
        /\ (pc[w] = "done" /\ natt[w] > 0 /\ resp[w].tag = "None")
               => (result[w] = NoneV /\ natt[w] = SCRAPER_MAX_RETRIES)

\* C3: a get that follows a completed put of (key, payload), with no later put,
\* returns exactly the payload while less than the expiry has passed since the
\* put, and absent once the expiry or more has passed.
C3_RoundTrip ==
    \A w \in Workers :
        (obs[w].got /\ obs[w].put.done) =>
            cached[w] = IF obs[w].at - obs[w].put.ts < Expiry
                        THEN Text(obs[w].put.data)
                        ELSE NoneV

\* a get one second before the expiry of a put of a non-empty payload
C3_Witness ==
    \E w \in Workers :
        /\ obs[w].got /\ obs[w].put.done
        /\ obs[w].at - obs[w].put.ts = Expiry - 1
        /\ obs[w].put.data # <<>>
        /\ cached[w] = Text(obs[w].put.data)

\* C4: a get on a stored entry that is malformed or expired returns absent; it
\* raises nothing.
C4_MalformedIsMiss ==
    \A w \in Workers :
        (/\ obs[w].got
         /\ \/ Malformed(obs[w].file)
            \/ IsEntry(obs[w].file) /\ ~Fresh(obs[w].at, EntryTs(obs[w].file)))
        => cached[w] = NoneV

\* C5: when fetch_url(key, use_cache=True) finds a well-formed, unexpired entry
\* for the key, whatever its payload, the call is over with that payload as its
\* result, no network attempt made and last_request_time as it was.
C5_HitReturnsAtOnce ==
    \A w \in Workers :
        (/\ op[w] = "fetch_url"
         /\ obs[w].got
         /\ IsEntry(obs[w].file)
         /\ Fresh(obs[w].at, EntryTs(obs[w].file)))
        => /\ pc[w] = "done"
           /\ result[w] = Text(EntryData(obs[w].file))
           /\ natt[w] = 0
           /\ last_request_time[fetcherOf[w]] = obs[w].lrt

\* C7: whatever the interleaving of gets and puts for a key, a get reads either
\* no entry or one complete document of a payload that was put, and once no put
\* is in progress the stored entry is such a document.
C7_AtomicWrites ==
    /\ \A w \in Workers : obs[w].got => Complete(obs[w].file)
    /\ (\A w \in Workers : pc[w] \in {"idle", "done"})
           => \A h \in Paths : Complete(cache[h])

\* C8: two consecutive network requests issued by different workers fetching
\* with the cache off are at least SCRAPER_RATE_LIMIT seconds apart, whether
\* the workers share a BaseScraper or not.
C8_SharedClock ==
    (netLog.n = 2 /\ netLog.w # netLog.prev) => netLog.gap >= SCRAPER_RATE_LIMIT

\* C6: when a run of seed_database has returned, it has been through every
\* resort of its list, whatever failed for one of them, and every row it merged
\* is in the database.
C6_BatchSurvives ==
    sd_pc = "returned" =>
        /\ idx = Len(resort_list)
        /\ \A s \in Slugs : merged[s].exists => db[s] = merged[s]

\* C9: scrape_resort, given a page that was fetched, returns a record when the
\* page has a title and None when it has none.
C9_FailedOnlyWithoutTitle ==
    (scr.called /\ Truthy(scr.fr)) =>
        /\ scr.doc.h1 => scr.out.kind = "data"
        /\ ~scr.doc.h1 => scr.out.kind = "none"

\* C10: whatever a pass of scrape_resort meets, every pass runs to its end and
\* what the title, altitude and status passes found is in the record returned.
C10_PassesIndependent ==
    (scr.called /\ Truthy(scr.fr)) =>
        /\ scr.out.ran = 1..6
        /\ scr.doc.h1 => scr.out.data.name # Unset
        /\ scr.doc.altitude # <<>> => scr.out.data.altitude_min # Unset
        /\ scr.doc.status # "none" => scr.out.data.conditions.status # Unset

\* the arrays of an API response hold a value for every day
ApiComplete(r) ==
    /\ r.kind = "daily"
    /\ r.time.present
    /\ \A x \in {r.time, r.temperature_2m_max, r.temperature_2m_min,
                 r.snowfall_sum, r.weathercode} :
           /\ x.present
           /\ Len(x.vals) = Len(r.time.vals)
           /\ \A i \in 1..Len(x.vals) : x.vals[i] # Unset
\* the source of the forecast call failed: the page was not fetched or has no
\* container, the API gave an error or arrays with missing or null values
SourceFailed(f) ==
    IF f.source = "page" THEN ~Truthy(f.ff) \/ ~f.fdoc.container
    ELSE ~ApiComplete(f.api)

\* C11: a call of scrape_forecast or of WeatherService.get_forecast lets no
\* exception out, and returns the empty list when its source failed.
C11_ForecastFailureIsEmpty ==
    fcast.called => /\ ~fcast.raised
                    /\ SourceFailed(fcast) => fcast.list = <<>>

\* the numeric filter values of the parameters are numbers, where given
Coercible(f) ==
    \A x \in {"min_snow", "min_slopes", "max_price"} : f[x].k \in {"none", "num"}
\* the resorts of the repository that satisfy every filter that is given
Satisfying(rows, f) ==
    {sl \in Slugs :
        /\ rows[sl].exists
        /\ Given(f.min_snow) =>
               /\ rows[sl].conditions.snow_depth_mountain # Unset
               /\ rows[sl].conditions.snow_depth_mountain[1] >= f.min_snow.n
        /\ Given(f.status) => rows[sl].conditions.status = Val(f.status.s)
        /\ Given(f.min_slopes) =>
               /\ rows[sl].conditions.slopes_open_km # Unset
               /\ rows[sl].conditions.slopes_open_km[1] >= f.min_slopes.n
        /\ Given(f.max_price) =>
               /\ rows[sl].pricing.adult_day_pass # Unset
               /\ rows[sl].pricing.adult_day_pass[1] <= f.max_price.n
        /\ Given(f.country) => rows[sl].country = Val(f.country.s)}
Returned(r) == {r.resorts[i].slug : i \in 1..Len(r.resorts)}

\* C12: for every set of filters given with usable values, the resorts the
\* filter pipeline returns are exactly those of the repository that satisfy
\* every given filter.
C12_FiltersConjoin ==
    (req.kind = "list" /\ Coercible(req.args)) =>
        /\ res.code = 200
        /\ Returned(res) = Satisfying(db, req.args)

\* the filters of the parameters that are on the conditions sub-record
ConditionsFilters(f) == {x \in {"min_snow", "status", "min_slopes"} : Given(f[x])}

\* C13: a search request with both coordinates is answered with success
\* whatever the values of its filter and sort parameters are: one that cannot
\* be used is ignored.  (Requests with at most one filter on conditions and no
\* sort by price or snow, which C12, C16 and C20 are about.)
C13_OnlyMissingOriginFails ==
    (/\ req.kind = "search"
     /\ ToFloat(req.args.lat).k = "num" /\ ToFloat(req.args.lng).k = "num"
     /\ Cardinality(ConditionsFilters(req.args)) <= 1
     /\ req.args.sort.s \notin {"price", "snow"}) =>
        res.code = 200

\* C14: every resort a search returns is one for which some merged record had
\* coordinates.
C14_UnlocatedNeverFound ==
    (req.kind = "search" /\ res.code = 200) => Returned(res) \subseteq located

\* the nearest number to n in [lo, hi]
Clamp(n, lo, hi) == IF n < lo THEN lo ELSE IF n > hi THEN hi ELSE n

\* C15: the radius a search uses and echoes is a number between the minimum
\* and the maximum radius: the caller's number when that is in the range, the
\* nearest bound when it is not, the default when no radius is given.
C15_RadiusClamped ==
    (req.kind = "search" /\ res.code = 200) =>
        /\ res.radius.k = "num"
        /\ res.radius.n >= Km(MIN_SEARCH_RADIUS_KM)
        /\ res.radius.n <= Km(MAX_SEARCH_RADIUS_KM)
        /\ req.args.radius.k = "none" => res.radius.n = Km(DEFAULT_SEARCH_RADIUS_KM)
        /\ req.args.radius.k = "num" =>
               res.radius.n = Clamp(req.args.radius.n, Km(MIN_SEARCH_RADIUS_KM),
                                    Km(MAX_SEARCH_RADIUS_KM))

\* the resort of the answer has a pricing row with an adult day-pass price
Priced(e) == e.pricing.exists /\ e.pricing.adult_day_pass # Unset

\* C16: a search sorted by price succeeds, and in its result no resort without
\* pricing (Pricing row, or adult day-pass price in it) comes before one that
\* has it and the resorts that have it are in ascending order of that price.
C16_UnpricedLast ==
    (req.kind = "search" /\ req.args \in SortRequests /\ req.args.sort = Str("price")) =>
        /\ res.code = 200
        /\ \A i, j \in 1..Len(res.resorts) :
               i < j =>
                   /\ Priced(res.resorts[j]) => Priced(res.resorts[i])
                   /\ (Priced(res.resorts[i]) /\ Priced(res.resorts[j])) =>
                          res.resorts[i].pricing.adult_day_pass[1]
                              <= res.resorts[j].pricing.adult_day_pass[1]

\* the columns of Conditions a conditions dict can supply
CondFields == DOMAIN NoConditions

\* C17: after a merge of a record with a non-empty conditions sub-record, every
\* column of the resort's conditions holds what the sub-record supplies for it
\* (for the status, 'unknown' when it supplies none) and nothing else.
C17_ConditionsReplaced ==
    (app_pc = "merged" /\ ~mrg.raised /\ mrg.rd.conditions # NoConditions) =>
        \A f \in CondFields :
            \/ db[mrg.slug].conditions[f] = mrg.rd.conditions[f]
            \/ /\ f = "status"
               /\ mrg.rd.conditions[f] = Unset
               /\ db[mrg.slug].conditions[f] = Val("unknown")

\* C18: after a merge the resort's forecasts are exactly the forecasts of the
\* merged record, none kept from before, and the forecasts of every other
\* resort are what they were.
C18_ForecastsSuperseded ==
    (app_pc = "merged" /\ ~mrg.raised) =>
        /\ db[mrg.slug].forecasts = mrg.rd.forecasts
        /\ \A sl \in Slugs \ {mrg.slug} : db[sl].forecasts = mrg.before[sl].forecasts

\* the distance of resort sl of the repository from the origin of the request
DistanceFrom(a, sl) ==
    calculate_distance(ToFloat(a.lat).n, ToFloat(a.lng).n,
                       db[sl].latitude[1], db[sl].longitude[1])

\* C19: an answered search returns exactly the filtered resorts whose distance
\* rounded to one decimal place is at most the effective radius, and every
\* distance_km it attaches is at most that radius.
C19_RadiusFilterExact ==
    (req.kind = "search" /\ res.code = 200 /\ res.radius.k = "num") =>
        /\ Returned(res) =
               {sl \in Satisfying(db, req.args) :
                    Round1(DistanceFrom(req.args, sl)) <= res.radius.n}
        /\ \A i \in 1..Len(res.resorts) : res.resorts[i].distance_km <= res.radius.n

\* the mountain snow depth of a resort of the answer, 0 when it has no
\* conditions or its conditions carry no mountain snow depth
DepthOrZero(e) ==
    IF e.conditions.exists /\ e.conditions.snow_depth_mountain # Unset
    THEN e.conditions.snow_depth_mountain[1] ELSE 0

\* C20: a search sorted by snow is answered, and its resorts are in descending
\* mountain snow depth, a resort without conditions or without a mountain snow
\* depth counting as depth 0.
C20_SnowSortTotal ==
    (req.kind = "search" /\ req.args \in SortRequests /\ req.args.sort = Str("snow")) =>
        /\ res.code = 200
        /\ \A i, j \in 1..Len(res.resorts) :
               i < j => DepthOrZero(res.resorts[i]) >= DepthOrZero(res.resorts[j])

\* C21: every forecast day a forecast source returns, and every forecast row
\* stored in the repository, has snow_forecast_cm set to an integer.
C21_SnowForecastSet ==
    /\ \A i \in 1..Len(fcast.list) : fcast.list[i].snow_forecast_cm # Unset
    /\ \A sl \in Slugs :
           \A i \in 1..Len(db[sl].forecasts) : db[sl].forecasts[i].snow_forecast_cm # Unset

\* C22: for a fetched forecast page whose container holds k day elements the
\* page source returns min(k, 7) days in document order, day i (from 0) dated
\* today + i, and a day whose element holds an image carries a symbol.
C22_ForecastPerDay ==
    (fcast.source = "page" /\ Truthy(fcast.ff) /\ fcast.fdoc.container) =>
        LET k == Len(fcast.fdoc.days) IN
        /\ ~fcast.raised
        /\ Len(fcast.list) = (IF k < FORECAST_DAYS THEN k ELSE FORECAST_DAYS)
        /\ \A i \in 1..Len(fcast.list) :
               /\ fcast.list[i].date = i - 1
               /\ fcast.fdoc.days[i].img => fcast.list[i].symbol # Unset

\* the places <<block, item>> of the items of the blocks that match the resort
\* schema or hold a geo field, and the first of them in document order
Matching(scripts) ==
    UNION {{<<k, i>> : i \in {j \in 1..Len(scripts[k].items) :
                                /\ scripts[k].items[j].kind = "obj"
                                /\ \/ scripts[k].items[j].type
                                   \/ scripts[k].items[j].geo # "absent"}} :
           k \in {b \in 1..Len(scripts) : scripts[b].valid}}
FirstMatching(scripts) ==
    LET m == CHOOSE x \in Matching(scripts) :
                 \A y \in Matching(scripts) :
                     x[1] < y[1] \/ (x[1] = y[1] /\ x[2] <= y[2])
    IN scripts[m[1]].items[m[2]]

\* C23: when scrape_resort returns a record for a page with matching
\* structured-data items, the first of which carries coordinates, a description
\* and an address, the record's latitude, longitude, description and region are
\* those of that first item.
C23_FirstBlockWins ==
    (/\ scr.called
     /\ scr.out.kind = "data"
     /\ Matching(scr.doc.scripts) # {}
     /\ FirstMatching(scr.doc.scripts).geo = "ok"
     /\ FirstMatching(scr.doc.scripts).desc
     /\ FirstMatching(scr.doc.scripts).addr = "dict") =>
        LET item == FirstMatching(scr.doc.scripts) IN
        /\ scr.out.data.latitude = Val(item.v)
        /\ scr.out.data.longitude = Val(item.v)
        /\ scr.out.data.description = Val(Truncate(<<item.v>>))
        /\ scr.out.data.region = Val(item.v)

\* the resorts that the run merged and whose merged row is in the database
Committed == {s \in Slugs : merged[s].exists /\ db[s] = merged[s]}

\* C24: when a run of seed_database has returned, the count it returned is the
\* number of resorts it merged that are committed in the database; a run that
\* returned 0 has none committed.
C24_CountIsCommitted ==
    sd_pc = "returned" => ret = Val(Cardinality(Committed))

====
